---- MODULE Spec2Model ----
(***************************************************************************)
(* A model of pygrep.py: REcompiler (a recursive-descent compiler from a   *)
(* regular expression to a finite state machine held in three arrays) and  *)
(* REsearcher (a deque-driven simulation of that machine over a line).     *)
(*                                                                         *)
(* Characters are one-character strings; the '\0' that REcompiler appends  *)
(* to the pattern is the string NUL.  Positions keep Python's 0-based      *)
(* numbering, so the character at position p of a list xs is xs[p + 1].    *)
(***************************************************************************)
EXTENDS Integers, Sequences, FiniteSets, TLC

\* ------------------------------------------------------------------------
\* Bounds of the model
\* ------------------------------------------------------------------------

\* longest pattern of the exhaustive pattern family
MaxPatLen == 4
\* longest line of the exhaustive line family
MaxLineLen == 3
\* longest pattern of the family the termination property is checked on
MaxLivePatLen == 3
\* longest line over a and b searched with the example patterns
MaxExampleLen == 6
\* most repetitions n in an example line x y^n z
MaxRep == 4

\* ------------------------------------------------------------------------
\* Program constants
\* ------------------------------------------------------------------------

BR == "BR"
WC == "WC"
END == -1
SCAN == -1
NUL == "NUL"

\* result_state's default in REcompiler.primary
ERROR_STATE == -10

\* ------------------------------------------------------------------------
\* FiniteStateMachine: a list of FSMState records
\* ------------------------------------------------------------------------

FSMState(state_num, state_type, next1, next2) ==
    [state_num |-> state_num, state_type |-> state_type,
     next1 |-> next1, next2 |-> next2]

\* FiniteStateMachine.add_state: append, whatever ids the list already holds
fsm_add_state(states, state_num, state_type, next1, next2) ==
    Append(states, FSMState(state_num, state_type, next1, next2))

\* FiniteStateMachine.get_state: the index of the first state carrying the
\* number, 0 standing for None
get_state(states, state_num) ==
    LET S == {i \in DOMAIN states : states[i].state_num = state_num}
    IN  IF S = {} THEN 0 ELSE CHOOSE i \in S : \A j \in S : i <= j

\* FiniteStateMachine.update_state with both successors given
update_state(states, state_num, next1, next2) ==
    LET i == get_state(states, state_num)
    IN  IF i = 0 THEN states
        ELSE [states EXCEPT ![i].next1 = next1, ![i].next2 = next2]

\* the one element of a singleton set.  Written The({e(x) : x \in {v}}), it
\* evaluates v once and names its value x in e
The(S) == CHOOSE x \in S : TRUE

\* sorted(self.states, key=state_num): Python's sort is stable, so a state
\* goes after those with a smaller number and those with the same number
\* that come earlier in the list
sorted_states(states) ==
    LET rank(i) == Cardinality({j \in DOMAIN states :
                       \/ states[j].state_num < states[i].state_num
                       \/ /\ states[j].state_num = states[i].state_num
                          /\ j <= i})
    IN  [k \in DOMAIN states |-> states[CHOOSE i \in DOMAIN states : rank(i) = k]]

\* FiniteStateMachine.to_arrays
to_arrays(states) ==
    The({[state_type |-> [i \in DOMAIN ss |-> ss[i].state_type],
          next1 |-> [i \in DOMAIN ss |-> ss[i].next1],
          next2 |-> [i \in DOMAIN ss |-> ss[i].next2]]
         : ss \in {sorted_states(states)}})

\* ------------------------------------------------------------------------
\* REcompiler
\* ------------------------------------------------------------------------

\* REcompiler.__init__.  plus_log and alt_log are history fields the code
\* does not have: they record, for each '+' factor and each alternation the
\* parser completes, the state numbers involved.
REcompiler(regexp) ==
    [chars |-> Append(regexp, NUL),
     pos |-> 0,
     state_num |-> 1,
     states |-> <<FSMState(0, BR, 0, 0)>>,
     err |-> "none",
     plus_log |-> {},
     alt_log |-> {}]

\* self.chars[self.pos]
cur(c) == c.chars[c.pos + 1]

\* REcompiler.error: the message is kept, the process exits
error(c, message) == [c EXCEPT !.err = message]

\* REcompiler.is_vocab
is_vocab(char) ==
    char \notin {"(", ")", "\\", "*", "+", "?", "|"} /\ char # NUL

\* REcompiler.set_state
set_state(c, state_id, char_type, next_state1, next_state2) ==
    LET i == get_state(c.states, state_id)
    IN  IF i # 0
        THEN [c EXCEPT !.states[i].state_type = char_type,
                       !.states[i].next1 = next_state1,
                       !.states[i].next2 = next_state2]
        ELSE LET added == fsm_add_state(c.states, state_id, char_type,
                                        next_state1, next_state2)
                 n == Len(added)
                 fill == [k \in 1..(IF state_id > n THEN state_id - n ELSE 0)
                            |-> FSMState(n + k - 1, BR, 0, 0)]
             IN  [c EXCEPT !.states = added \o fill]

\* converge with the exit taken one state too far
converge_off_by_one(c, previous_state) ==
    LET i == get_state(c.states, previous_state)
    IN  IF i = 0 THEN c
        ELSE LET s == c.states[i]
             IN  [c EXCEPT !.states[i].next2 =
                               IF s.next1 = s.next2 THEN c.state_num + 1
                               ELSE s.next2,
                           !.states[i].next1 = c.state_num + 1]

\* the successor rewrite REcompiler.expression applies to previous_state
converge(c, previous_state) ==
    LET i == get_state(c.states, previous_state)
    IN  IF i = 0 THEN c
        ELSE LET s == c.states[i]
             IN  [c EXCEPT !.states[i].next2 =
                               IF s.next1 = s.next2 THEN c.state_num ELSE s.next2,
                           !.states[i].next1 = c.state_num]

RECURSIVE expression(_), term_loop(_), factor(_), primary(_)

\* REcompiler.primary
primary(c) ==
    IF c.pos < Len(c.chars)
    THEN IF cur(c) = "\\"
         THEN LET c1 == [c EXCEPT !.pos = @ + 1]
              IN  IF c1.pos < Len(c1.chars)
                  THEN [c |-> [set_state(c1, c1.state_num, cur(c1),
                                         c1.state_num + 1, c1.state_num + 1)
                                 EXCEPT !.pos = @ + 1, !.state_num = @ + 1],
                        ret |-> c1.state_num]
                  ELSE [c |-> error(c1, "Escape at end of pattern"),
                        ret |-> ERROR_STATE]
         ELSE IF is_vocab(cur(c))
         THEN [c |-> [set_state(c, c.state_num,
                                IF cur(c) = "." THEN WC ELSE cur(c),
                                c.state_num + 1, c.state_num + 1)
                         EXCEPT !.pos = @ + 1, !.state_num = @ + 1],
               ret |-> c.state_num]
         ELSE IF cur(c) = "("
         THEN The({IF e.c.err # "none" THEN e
                   ELSE IF e.c.pos < Len(e.c.chars) /\ cur(e.c) = ")"
                   THEN [c |-> [e.c EXCEPT !.pos = @ + 1], ret |-> e.ret]
                   ELSE [c |-> error(e.c, "Missing closing parenthesis"),
                         ret |-> e.ret]
                   : e \in {expression([c EXCEPT !.pos = @ + 1])}})
         ELSE [c |-> error(c, "Unexpected character"), ret |-> ERROR_STATE]
    ELSE [c |-> error(c, "Unexpected end of pattern"), ret |-> ERROR_STATE]

\* the '?' branch of REcompiler.factor, p being what primary returned
factor_optional(p) ==
    LET c1 == p.c
        primary_state == p.ret
        i == get_state(c1.states, primary_state)
        c2 == IF i = 0 THEN c1
              ELSE [c1 EXCEPT !.states[i].next1 = c1.state_num + 1,
                              !.states[i].next2 = c1.state_num + 1]
        c3 == set_state(c2, c1.state_num, BR, primary_state, c1.state_num + 1)
    IN  [c |-> [c3 EXCEPT !.pos = @ + 1, !.state_num = @ + 1],
         ret |-> c1.state_num]

\* the '+' branch of REcompiler.factor
factor_plus(p) ==
    LET c1 == p.c
        primary_state == p.ret
        c2 == set_state(c1, c1.state_num, BR, primary_state, c1.state_num + 1)
    IN  [c |-> [c2 EXCEPT !.pos = @ + 1, !.state_num = @ + 1,
                          !.plus_log = @ \cup {[branch |-> c1.state_num,
                                                entry |-> primary_state]}],
         ret |-> primary_state]

\* the '*' branch of REcompiler.factor
factor_star(p) ==
    LET c1 == p.c
        primary_state == p.ret
        c2 == set_state(c1, c1.state_num, BR, c1.state_num + 1, primary_state)
    IN  [c |-> [c2 EXCEPT !.pos = @ + 1, !.state_num = @ + 1],
         ret |-> c1.state_num]

\* REcompiler.factor
factor(c) ==
    The({IF p.c.err # "none" THEN p
         ELSE IF p.c.pos < Len(p.c.chars) /\ cur(p.c) = "?" THEN factor_optional(p)
         ELSE IF p.c.pos < Len(p.c.chars) /\ cur(p.c) = "+" THEN factor_plus(p)
         ELSE IF p.c.pos < Len(p.c.chars) /\ cur(p.c) = "*" THEN factor_star(p)
         ELSE p
         : p \in {primary(c)}})

\* the while loop of REcompiler.term
term_loop(c) ==
    IF /\ c.err = "none"
       /\ c.pos < Len(c.chars)
       /\ (is_vocab(cur(c)) \/ cur(c) = "(" \/ cur(c) = "\\")
    THEN The({term_loop(f.c) : f \in {factor(c)}})
    ELSE c

\* REcompiler.term
term(c) ==
    The({The({[c |-> l, ret |-> f.ret] : l \in {term_loop(f.c)}})
         : f \in {factor(c)}})

\* REcompiler.expression after its '|': t1 is what the first term returned,
\* previous_state the last state allocated before it
expression_alt(t1, previous_state) ==
    LET term1_state == t1.ret
        c2 == converge(t1.c, previous_state)
        previous_state2 == t1.c.state_num - 1
        result_state == t1.c.state_num
    IN  The({IF t2.c.err # "none" THEN t2
             ELSE LET term2_state == t2.ret
                      c3 == set_state(t2.c, result_state, BR,
                                      term1_state, term2_state)
                      c4 == converge(c3, previous_state2)
                  IN  [c |-> [c4 EXCEPT !.alt_log = @ \cup
                                  {[branch |-> result_state,
                                    first |-> previous_state + 1,
                                    exit |-> t2.c.state_num]}],
                       ret |-> result_state]
             : t2 \in {expression([c2 EXCEPT !.pos = @ + 1,
                                             !.state_num = @ + 1])}})

\* REcompiler.expression
expression(c) ==
    The({IF t1.c.err # "none" THEN t1
         ELSE IF t1.c.pos < Len(t1.c.chars) /\ cur(t1.c) = "|"
         THEN expression_alt(t1, c.state_num - 1)
         ELSE t1
         : t1 \in {term(c)}})

\* REcompiler.compile: the compiler after the call, and the arrays it returns
\* (three empty arrays when it does not return)
NoArrays == [state_type |-> <<>>, next1 |-> <<>>, next2 |-> <<>>]

compile(c) ==
    The({IF e.c.err # "none" THEN [c |-> e.c, arrays |-> NoArrays]
         ELSE IF ~(e.c.pos < Len(e.c.chars))
         THEN [c |-> [e.c EXCEPT !.err = "IndexError"], arrays |-> NoArrays]
         ELSE IF cur(e.c) # NUL
         THEN [c |-> error(e.c, "Not a proper regular expression - unexpected characters at end"),
               arrays |-> NoArrays]
         ELSE LET s1 == update_state(e.c.states, 0, e.ret, e.ret)
                  s2 == fsm_add_state(s1, e.c.state_num, BR, END, END)
              IN  [c |-> [e.c EXCEPT !.states = s2], arrays |-> to_arrays(s2)]
         : e \in {expression(c)}})

\* ------------------------------------------------------------------------
\* REsearcher: pure helpers over the three arrays (0-based state ids)
\* ------------------------------------------------------------------------

\* REsearcher.is_end_br_state
is_end_br_state(ty, n1, n2, state) ==
    IF state < 0 \/ state >= Len(ty) THEN FALSE
    ELSE ty[state + 1] = BR /\ n1[state + 1] = END /\ n2[state + 1] = END

\* reached_end without the consumed_input flag
reached_end_unguarded(ty, n1, n2, state, consumed) ==
    is_end_br_state(ty, n1, n2, state)

\* the acceptance test of REsearcher.match_from_position
reached_end(ty, n1, n2, state, consumed) ==
    is_end_br_state(ty, n1, n2, state) /\ consumed

\* the test that lets the SCAN marker move to the next character
can_advance(p, ln) == p < Len(ln)

\* advance leaving the position where it is
advance_stuck(p) == p

\* pos += 1 at the SCAN marker
advance(p) == p + 1

\* consume with a literal state accepting any character
consume_any(ty, n1, state, input_char) ==
    IF state < Len(ty) THEN <<n1[state + 1]>> ELSE <<>>

\* what a consuming state appends for the current character
consume(ty, n1, state, input_char) ==
    IF state < Len(ty)
    THEN IF ty[state + 1] = WC THEN <<n1[state + 1]>>
         ELSE IF ty[state + 1] \notin {BR, WC} /\ ty[state + 1] = input_char
         THEN <<n1[state + 1]>>
         ELSE <<>>
    ELSE <<>>

\* ------------------------------------------------------------------------
\* Inputs
\* ------------------------------------------------------------------------

\* all sequences over S of length at most n
SeqsUpTo(S, n) == UNION {[1..k -> S] : k \in 0..n}

\* the characters patterns are drawn from: a literal and every special one
PatChars == {"a", ".", "(", ")", "|", "*", "+", "?", "\\"}
\* the characters lines are drawn from
LineChars == {"a", "b"}

\* a pattern whose only cycle runs through branch states alone
NestedStar == <<"(", "a", "*", ")", "*">>

Patterns == SeqsUpTo(PatChars, MaxPatLen) \cup {NestedStar}
LivePatterns == SeqsUpTo(PatChars, MaxLivePatLen) \cup {NestedStar}
Lines == SeqsUpTo(LineChars, MaxLineLen)

\* the example patterns: x y* z and x y? z for distinct literals, and (ab)+
ExampleChars == {"a", "b", "c"}
Triples == {t \in [1..3 -> ExampleChars] : Cardinality({t[1], t[2], t[3]}) = 3}
StarPattern(t) == <<t[1], t[2], "*", t[3]>>
OptPattern(t) == <<t[1], t[2], "?", t[3]>>
GroupPlus == <<"(", "a", "b", ")", "+">>
ExamplePatterns ==
    {StarPattern(t) : t \in Triples} \cup {OptPattern(t) : t \in Triples}
        \cup {GroupPlus}
\* the line x y^n z
PrefixLine(t, n) == <<t[1]>> \o [i \in 1..n |-> t[2]] \o <<t[3]>>
ExampleLines ==
    SeqsUpTo(LineChars, MaxExampleLen)
        \cup {PrefixLine(t, n) : t \in Triples, n \in 0..MaxRep}

\* ------------------------------------------------------------------------
\* State
\* ------------------------------------------------------------------------

VARIABLES
    pattern,         \* the regular expression given to REcompiler
    compiler,        \* the REcompiler object
    state_type,      \* REsearcher.state_type
    next1,           \* REsearcher.next1
    next2,           \* REsearcher.next2
    line,            \* the line given to search_pattern_in_line
    start_pos,       \* the loop variable of search_pattern_in_line
    deq,             \* the deque of match_from_position
    pos,             \* match_from_position's input position
    consumed_input,  \* match_from_position's flag
    calls,           \* add_state calls still to make for the popped branch
    stack,           \* add_state_recursive calls still to make, first on top
    visited,         \* the visited set of the running add_state call
    taken,           \* history: the ids popped since the last SCAN marker
    found,           \* what search_pattern_in_line returned, if it has
    pc               \* where the program is

vars == <<pattern, compiler, state_type, next1, next2, line, start_pos, deq,
          pos, consumed_input, calls, stack, visited, taken, found, pc>>

searcher_vars == <<line, start_pos, deq, pos, consumed_input, calls, stack,
                   visited, taken, found>>

InitWith(P) ==
    /\ pattern \in P
    /\ compiler = REcompiler(pattern)
    /\ state_type = <<>>
    /\ next1 = <<>>
    /\ next2 = <<>>
    /\ line = <<>>
    /\ start_pos = 0
    /\ deq = <<>>
    /\ pos = 0
    /\ consumed_input = FALSE
    /\ calls = <<>>
    /\ stack = <<>>
    /\ visited = {}
    /\ taken = <<>>
    /\ found = "none"
    /\ pc = "new"

Init == InitWith(Patterns)

\* ------------------------------------------------------------------------
\* Actions
\* ------------------------------------------------------------------------

\* main: compiler.compile(), then REsearcher(state_type, next1, next2)
Compile ==
    /\ pc = "new"
    /\ \E r \in {compile(compiler)} :
           /\ compiler' = r.c
           /\ state_type' = r.arrays.state_type
           /\ next1' = r.arrays.next1
           /\ next2' = r.arrays.next2
           /\ pc' = IF r.c.err = "none" THEN "compiled" ELSE "failed"
    /\ UNCHANGED <<pattern, searcher_vars>>

\* a call of REsearcher.search_pattern_in_line(ln)
SearchPatternInLine(ln) ==
    /\ pc = "compiled"
    /\ line' = ln
    /\ start_pos' = 0
    /\ pc' = "search"
    /\ UNCHANGED <<pattern, compiler, state_type, next1, next2, deq, pos,
                   consumed_input, calls, stack, visited, taken, found>>

\* one turn of search_pattern_in_line's for loop: the next call of
\* match_from_position up to its first add_state, or return False
SearchLoop ==
    /\ pc = "search"
    /\ IF start_pos < Len(line)
       THEN /\ deq' = <<SCAN>>
            /\ calls' = <<0>>
            /\ pos' = start_pos
            /\ consumed_input' = FALSE
            /\ taken' = <<>>
            /\ pc' = "match"
            /\ UNCHANGED found
       ELSE /\ found' = "False"
            /\ pc' = "done"
            /\ UNCHANGED <<deq, calls, pos, consumed_input, taken>>
    /\ UNCHANGED <<pattern, compiler, state_type, next1, next2, line,
                   start_pos, stack, visited>>

\* REsearcher.add_state: the next pending call
AddState ==
    /\ pc = "match"
    /\ stack = <<>>
    /\ calls # <<>>
    /\ calls' = Tail(calls)
    /\ IF Head(calls) < 0
       THEN UNCHANGED <<stack, visited>>
       ELSE /\ visited' = {}
            /\ stack' = <<Head(calls)>>
    /\ UNCHANGED <<pattern, compiler, state_type, next1, next2, line,
                   start_pos, deq, pos, consumed_input, taken, found, pc>>

\* REsearcher.add_state_recursive: one call
AddStateRecursive ==
    /\ pc = "match"
    /\ stack # <<>>
    /\ LET state == Head(stack)
           rest == Tail(stack)
       IN  IF state < 0 \/ state \in visited
           THEN /\ stack' = rest
                /\ UNCHANGED <<visited, deq>>
           ELSE /\ visited' = visited \cup {state}
                /\ IF is_end_br_state(state_type, next1, next2, state)
                   THEN /\ deq' = <<state>> \o deq
                        /\ stack' = rest
                   ELSE IF state < Len(state_type) /\ state_type[state + 1] = BR
                   THEN /\ stack' = <<next1[state + 1], next2[state + 1]>> \o rest
                        /\ UNCHANGED deq
                   ELSE /\ deq' = <<state>> \o deq
                        /\ stack' = rest
    /\ UNCHANGED <<pattern, compiler, state_type, next1, next2, line,
                   start_pos, pos, consumed_input, calls, taken, found, pc>>

\* one turn of match_from_position's while loop, up to the add_state calls
\* it makes; its return values end the turn of search_pattern_in_line's loop
MatchLoop ==
    /\ pc = "match"
    /\ stack = <<>>
    /\ calls = <<>>
    /\ IF deq = <<>>
       THEN \* the while loop ends: return False
            /\ start_pos' = start_pos + 1
            /\ pc' = "search"
            /\ UNCHANGED <<deq, pos, consumed_input, calls, taken, found>>
       ELSE LET state == Head(deq)
                d == Tail(deq)
            IN  IF state = SCAN
                THEN IF d = <<>>
                     THEN /\ start_pos' = start_pos + 1
                          /\ pc' = "search"
                          /\ deq' = d
                          /\ taken' = <<>>
                          /\ UNCHANGED <<pos, consumed_input, calls, found>>
                     ELSE /\ IF can_advance(pos, line)
                             THEN /\ pos' = advance(pos)
                                  /\ consumed_input' = TRUE
                                  /\ deq' = Append(d, SCAN)
                             ELSE /\ deq' = d
                                  /\ UNCHANGED <<pos, consumed_input>>
                          /\ taken' = <<>>
                          /\ UNCHANGED <<start_pos, calls, found, pc>>
                ELSE IF reached_end(state_type, next1, next2, state, consumed_input)
                THEN /\ found' = "True"
                     /\ pc' = "done"
                     /\ deq' = d
                     /\ taken' = Append(taken, state)
                     /\ UNCHANGED <<start_pos, pos, consumed_input, calls>>
                ELSE IF state < Len(state_type) /\ state_type[state + 1] = BR
                THEN /\ calls' = <<next1[state + 1], next2[state + 1]>>
                     /\ deq' = d
                     /\ taken' = Append(taken, state)
                     /\ UNCHANGED <<start_pos, pos, consumed_input, found, pc>>
                ELSE IF pos >= Len(line)
                THEN /\ deq' = d
                     /\ taken' = Append(taken, state)
                     /\ UNCHANGED <<start_pos, pos, consumed_input, calls, found, pc>>
                ELSE /\ deq' = d \o consume(state_type, next1, state, line[pos + 1])
                     /\ taken' = Append(taken, state)
                     /\ UNCHANGED <<start_pos, pos, consumed_input, calls, found, pc>>
    /\ UNCHANGED <<pattern, compiler, state_type, next1, next2, line, stack,
                   visited>>

Next ==
    \/ Compile
    \/ \E ln \in Lines : SearchPatternInLine(ln)
    \/ SearchLoop
    \/ AddState
    \/ AddStateRecursive
    \/ MatchLoop

Spec == Init /\ [][Next]_vars

\* the program is sequential: a step that can be taken is taken
InitLive == InitWith(LivePatterns)
LiveSpec == InitLive /\ [][Next]_vars /\ WF_vars(Next)

\* the example patterns, searched in every line over a, b, c
InitExamples == InitWith(ExamplePatterns)

NextExamples ==
    \/ Compile
    \/ \E ln \in ExampleLines : SearchPatternInLine(ln)
    \/ SearchLoop
    \/ AddState
    \/ AddStateRecursive
    \/ MatchLoop

SpecExamples == InitExamples /\ [][NextExamples]_vars

\* ------------------------------------------------------------------------
\* Properties
\* ------------------------------------------------------------------------

\* sub occurs in ln as a contiguous run
Contains(ln, sub) ==
    \E i \in 1..(Len(ln) - Len(sub) + 1) : SubSeq(ln, i, i + Len(sub) - 1) = sub

\* the successors of state id s in the searcher's arrays
Succs(s) == {next1[s + 1], next2[s + 1]}

\* C1: with the FSM compiled from x y* z (x, y, z distinct literals),
\* search_pattern_in_line returns True for every line x y^n z, n >= 0.
C1_StarAfterPrefix ==
    \A t \in Triples : \A n \in 0..MaxRep :
        (pc = "done" /\ pattern = StarPattern(t) /\ line = PrefixLine(t, n))
            => found = "True"

\* C2: with the FSM compiled from x y? z, search_pattern_in_line returns
\* True for the lines x y^n z with n = 0 and n = 1 and for no other n.
C2_OptionalAfterPrefix ==
    \A t \in Triples : \A n \in 0..MaxRep :
        (pc = "done" /\ pattern = OptPattern(t) /\ line = PrefixLine(t, n))
            => (found = "True" <=> n <= 1)

\* C3 as stated: with the FSM compiled from (ab)+, search_pattern_in_line
\* returns True for "ababab" and False for "aba".
C3_GroupPlusOriginal ==
    (pc = "done" /\ pattern = GroupPlus)
        => /\ line = <<"a", "b", "a", "b", "a", "b">> => found = "True"
           /\ line = <<"a", "b", "a">> => found = "False"

\* C3 as amended: with the FSM compiled from (ab)+, search_pattern_in_line
\* returns True for "ababab" and for "aba" as well, and in general returns
\* True for exactly the lines that contain "ab".
C3_GroupPlusAmended ==
    (pc = "done" /\ pattern = GroupPlus)
        => /\ line = <<"a", "b", "a", "b", "a", "b">> => found = "True"
           /\ line = <<"a", "b", "a">> => found = "True"
           /\ found = "True" <=> Contains(line, <<"a", "b">>)

C3_Witness ==
    pc = "done" /\ pattern = GroupPlus /\ line = <<"a", "b", "a">>
        /\ found = "True"

\* C4: match_from_position returns True only after the input position has
\* moved at least one character past the start offset, whatever the pattern
\* (also one that matches the empty string), and search_pattern_in_line
\* returns False for the empty line.
C4_AcceptNeedsInput ==
    /\ found = "True" => (consumed_input /\ pos > start_pos)
    /\ (pc = "done" /\ line = <<>>) => found = "False"

C4_Witness ==
    pc = "done" /\ found = "True" /\ pattern \in {<<"a", "*">>, <<"a", "?">>}

\* the pattern's last character is a backslash no backslash escapes
TrailingEscape(p) ==
    /\ p # <<>>
    /\ \E k \in 1..Len(p) :
          /\ k % 2 = 1
          /\ \A i \in (Len(p) - k + 1)..Len(p) : p[i] = "\\"
          /\ (k < Len(p) => p[Len(p) - k] # "\\")

\* C5: compiling a pattern that ends in an unescaped backslash ends with
\* REcompiler.error called, no state allocated for the escape (no state
\* whose character is the terminator) and no arrays produced.
C5_TrailingEscapeIsSyntaxError ==
    (pc \in {"compiled", "failed"} /\ TrailingEscape(pattern))
        => /\ compiler.err \notin {"none", "IndexError"}
           /\ \A i \in DOMAIN compiler.states :
                  compiler.states[i].state_type # NUL
           /\ state_type = <<>>

\* C6: in the arrays of a pattern that compiled (length n, index = state
\* id) state n-1 is the only accepting state, state 0 is a BR with next1 =
\* next2, and every successor of every state but n-1 is an id in 0..n-1.
C6_Structure ==
    pc = "compiled" =>
        LET n == Len(state_type)
        IN  /\ n >= 2 /\ Len(next1) = n /\ Len(next2) = n
            /\ {compiler.states[i].state_num : i \in DOMAIN compiler.states}
                   = 0..(n - 1)
            /\ Len(compiler.states) = n
            /\ \A s \in 0..(n - 1) :
                   is_end_br_state(state_type, next1, next2, s) <=> s = n - 1
            /\ state_type[1] = BR /\ next1[1] = next2[1]
            /\ \A s \in 0..(n - 2) : Succs(s) \subseteq 0..(n - 1)

C6_Witness ==
    pc = "compiled" /\ compiler.alt_log # {} /\ compiler.plus_log # {}

\* C7: in the FSM of a pattern with '|', every successor that leaves the
\* left alternative and every successor that leaves the right alternative
\* is the one state allocated right after the alternation; none is the
\* alternation's own branch state.
C7_AlternationSingleExit ==
    pc = "compiled" =>
        \A r \in compiler.alt_log :
            LET left == r.first..(r.branch - 1)
                right == (r.branch + 1)..(r.exit - 1)
            IN  /\ \A s \in left : Succs(s) \subseteq left \cup {r.exit}
                /\ \A s \in right : Succs(s) \subseteq right \cup {r.exit}

\* C8: in the FSM returned by compile, the branch state B of every '+'
\* factor has next1 = the entry of the quantified primary and next2 = B + 1.
C8_PlusBranchSurvives ==
    pc = "compiled" =>
        \A r \in compiler.plus_log :
            /\ next1[r.branch + 1] = r.entry
            /\ next2[r.branch + 1] = r.branch + 1

\* C9: during match_from_position no state id is taken from the queue twice
\* between two SCAN markers, and the queue never holds more entries than
\* the FSM has states plus the SCAN marker.
C9_BoundedFrontier ==
    pc = "match" =>
        /\ \A i, j \in DOMAIN taken : taken[i] = taken[j] => i = j
        /\ Len(deq) <= Len(state_type) + 1

\* C10: every search ends: a running add_state_recursive returns, a call of
\* search_pattern_in_line returns True or False; the input position stays
\* between the start offset and the line length and never decreases during
\* a call of match_from_position.
C10_SearchTerminates ==
    /\ [](pc = "match" => (start_pos <= pos /\ pos <= Len(line)))
    /\ [][(pc = "match" /\ pc' = "match") => pos' >= pos]_vars
    /\ (stack # <<>>) ~> (stack = <<>>)
    /\ (pc = "search") ~> (pc = "done" /\ found \in {"True", "False"})

C10_Witness ==
    /\ pc = "done"
    /\ pattern = NestedStar
    /\ line # <<>>
    /\ found = "False"

====
